---- MODULE Spec2Model ----
(***************************************************************************)
(* The iNaturalist image scraper of src/main2.py as a state machine:       *)
(* main's loop over species_list, scrape_taxon's pagination loop,          *)
(* _make_request's retry loop and download_image.  The remote API, the     *)
(* image host and the file system are the environment: every response,     *)
(* every download outcome and the prior content of a species' directory    *)
(* is an input, drawn from a bounded set at the step that reads it.        *)
(* The earlier script src/main.py (download_inaturalist_images and its     *)
(* module-level loop) is a second state machine on its own variables,      *)
(* specification Spec1.                                                    *)
(***************************************************************************)
EXTENDS Integers, Sequences, FiniteSets, TLC

(* ------------------------------ bounds --------------------------------- *)
\* TARGET_IMAGES_PER_SPECIES and PER_PAGE are 250 and 30 in the source; the
\* model draws them from 1..MaxTarget and 1..MaxPerPage.
MaxTarget == 2
MaxPerPage == 2
\* observation ids are 1..MaxObsId, an observation has at most MaxPhotos photos
MaxObsId == 2
MaxPhotos == 2
\* a species' directory holds at most MaxPreexisting files before the run
MaxPreexisting == 1
\* main.py: images wanted of a species (num_images), and the page number from
\* which pages are no longer told apart (it only enters the request URL)
MaxNumImages == 2
MaxPage1 == 3

(* ------------------------- program constants --------------------------- *)
MAX_RETRIES == 3
\* line 23: REQUEST_DELAY = 1.5 seconds, in tenths of a second
REQUEST_DELAY == 15

species_list == <<"Python molurus", "Bungarus caeruleus", "Dendrelaphis punctulatus">>

SQUARE == "square"
ORIGINAL == "original"
ALLOWED_EXT == {"jpg", "jpeg", "png"}
FALLBACK_EXT == "jpg"

(* --------------------------- string functions -------------------------- *)
\* str.replace(old, new): every non-overlapping occurrence, left to right
RECURSIVE Replace(_, _, _)
Replace(s, old, new) ==
    IF Len(s) < Len(old) THEN s
    ELSE IF SubSeq(s, 1, Len(old)) = old
         THEN new \o Replace(SubSeq(s, Len(old) + 1, Len(s)), old, new)
         ELSE SubSeq(s, 1, 1) \o Replace(SubSeq(s, 2, Len(s)), old, new)

\* old in s
RECURSIVE Contains(_, _)
Contains(s, old) ==
    IF Len(s) < Len(old) THEN FALSE
    ELSE IF SubSeq(s, 1, Len(old)) = old THEN TRUE
         ELSE Contains(SubSeq(s, 2, Len(s)), old)

\* s.split('.')[-1]: what follows the last dot, the whole string without one
RECURSIVE AfterLastDot(_)
AfterLastDot(s) ==
    IF Contains(s, ".")
    THEN AfterLastDot(SubSeq(s, 2, Len(s)))
    ELSE s

LowerChar(c) ==
    CASE c = "A" -> "a" [] c = "B" -> "b" [] c = "C" -> "c" [] c = "D" -> "d"
      [] c = "E" -> "e" [] c = "F" -> "f" [] c = "G" -> "g" [] c = "H" -> "h"
      [] c = "I" -> "i" [] c = "J" -> "j" [] c = "K" -> "k" [] c = "L" -> "l"
      [] c = "M" -> "m" [] c = "N" -> "n" [] c = "O" -> "o" [] c = "P" -> "p"
      [] c = "Q" -> "q" [] c = "R" -> "r" [] c = "S" -> "s" [] c = "T" -> "t"
      [] c = "U" -> "u" [] c = "V" -> "v" [] c = "W" -> "w" [] c = "X" -> "x"
      [] c = "Y" -> "y" [] c = "Z" -> "z" [] OTHER -> c

\* str.lower()
RECURSIVE Lower(_)
Lower(s) ==
    IF Len(s) = 0 THEN s
    ELSE LowerChar(SubSeq(s, 1, 1)) \o Lower(SubSeq(s, 2, Len(s)))

\* line 118: the URL that is requested for a photo
NormalizeUrlNoReplace(url) == url
NormalizeUrl(url) == Replace(url, SQUARE, ORIGINAL)

\* lines 119-121
InferExt(image_url) ==
    LET ext == Lower(AfterLastDot(image_url))
    IN  IF ext \in ALLOWED_EXT THEN ext ELSE FALLBACK_EXT

\* line 123: f"{result['id']}_{i}.{ext}"
FilenameNoIndex(id, i, ext) == ToString(id) \o "." \o ext
Filename(id, i, ext) == ToString(id) \o "_" \o ToString(i) \o "." \o ext

\* line 89: math.ceil(TARGET_IMAGES_PER_SPECIES / PER_PAGE)
CeilDiv(a, b) == (a + b - 1) \div b

(* ------------------------------ inputs --------------------------------- *)
\* photo URL templates the API may return
Urls == {"p/square.jpg", "q/medium.JPG", "r/square.gif"}

\* a photo descriptor is a dict with or without the key 'url'
Photos == {[url |-> u] : u \in Urls} \cup {<< >>}

\* an observation record is a dict with or without the keys 'id' and 'photos';
\* photos is the length of result['photos'], whose descriptors are read one by
\* one by the loop
Records ==
    {[id |-> o, photos |-> n] : o \in 1..MaxObsId, n \in 0..MaxPhotos}
        \cup {[id |-> o] : o \in 1..MaxObsId}
        \cup {[photos |-> n] : n \in 0..MaxPhotos}
        \cup {<< >>}

\* what _make_request returns: None, or the parsed JSON object; n is the
\* length of data['results'], whose records are read one by one by the loop.
\* The API returns at most per_page records a page.
NoneData == [kind |-> "None", n |-> 0]
Responses(per_page) ==
    {[kind |-> k, n |-> 0] : k \in {"empty_dict", "no_results_key", "empty_results"}}
        \cup {[kind |-> "results", n |-> k] : k \in 1..per_page}

\* what a species' directory may hold when the run reaches the species
EmptyDir == [p \in {} |-> "old"]
PrePaths == {Filename(o, k, "jpg") : o \in 1..MaxObsId, k \in 1..MaxPhotos}
InitialDirs ==
    {[p \in S |-> "old"] : S \in {T \in SUBSET PrePaths : Cardinality(T) <= MaxPreexisting}}

\* how one call of download_image ends: "ok", or the exception and whether
\* save_path had been opened for writing when it was raised
DownloadFailures == [exc : {"RequestException", "OSError"}, opened : BOOLEAN]

(* ------------------------------- state --------------------------------- *)
VARIABLES
    TARGET_IMAGES_PER_SPECIES,  \* class attribute, line 26
    PER_PAGE,                   \* class attribute, line 27
    sp,               \* main: index in species_list of the current species
    pc,               \* control position
    taxon_dir,        \* files of the current species' directory: path -> content
    total_downloaded, \* scrape_taxon local
    page,             \* scrape_taxon local
    max_pages,        \* scrape_taxon local
    attempt,          \* _make_request loop variable
    data,             \* scrape_taxon local: the last page fetch's result
    results_left,     \* records of data['results'] not yet iterated
    result,           \* scrape_taxon loop variable, while its photos are iterated
    i,                \* scrape_taxon loop variable (enumerate from 1)
    url_template,     \* photo['url'] as read at line 118
    image_url,        \* scrape_taxon local
    save_path,        \* scrape_taxon local
    ret,              \* download_image's return value, until line 130 has read it
    exc,              \* the exception propagating to main, "none" without one
    log,              \* what the last step gave to the logger, "" for nothing
    fetched,          \* history: page numbers of this species' page fetches
    n_requests,       \* history: HTTP GETs sent by the last _make_request call
    sleeps,           \* history: backoff delays of the last _make_request call
    download_called,  \* history: download_image was called for this species
    processed,        \* history: species for which scrape_taxon was called
    caught,           \* history: the exceptions caught by main
    last_call,        \* history: how the last network call of the species ended
    idle,             \* history: tenths of a second slept since that call ended
    \* main.py (its names carry a 1 where main2.py has the same name)
    species1,         \* index in species_list1 of the current species
    pc1,              \* control position
    folder,           \* files of the current species' folder: path -> content
    folder0,          \* history: the folder's files when the species was started
    downloaded,       \* download_inaturalist_images local
    page1,            \* download_inaturalist_images local
    results1_left,    \* records of results not yet iterated
    photos_left,      \* photos of the current record not yet iterated
    opens             \* history: per path, times it was opened for writing

vars == <<TARGET_IMAGES_PER_SPECIES, PER_PAGE, sp, pc, taxon_dir, total_downloaded,
          page, max_pages, attempt, data, results_left, result, i, url_template,
          image_url, save_path, ret, exc, log, fetched, n_requests, sleeps, download_called,
          processed, caught, last_call, idle,
          species1, pc1, folder, folder0, downloaded, page1, results1_left, photos_left, opens>>

config == <<TARGET_IMAGES_PER_SPECIES, PER_PAGE>>
species_locals == <<total_downloaded, page, max_pages>>
request_locals == <<attempt, n_requests, sleeps>>
photo_locals == <<i, url_template, image_url, save_path>>
main_hist == <<processed, caught>>
pace == <<last_call, idle>>
main1 == <<species1, pc1, folder, folder0, downloaded, page1, results1_left, photos_left, opens>>
main2 == <<TARGET_IMAGES_PER_SPECIES, PER_PAGE, sp, pc, taxon_dir, total_downloaded,
           page, max_pages, attempt, data, results_left, result, i, url_template,
           image_url, save_path, ret, exc, log, fetched, n_requests, sleeps,
           download_called, processed, caught, last_call, idle>>

NoResult == << >>
EmptyOpens == [p \in {} |-> 0]
UnsetData == [kind |-> "unset", n |-> 0]

InitLocals ==
    /\ sp = 1 /\ pc = "main" /\ taxon_dir = EmptyDir
    /\ total_downloaded = 0 /\ page = 1 /\ max_pages = 0
    /\ attempt = 0 /\ data = UnsetData /\ results_left = 0
    /\ result = NoResult /\ i = 0 /\ url_template = "" /\ image_url = "" /\ save_path = ""
    /\ ret = FALSE /\ exc = "none" /\ log = ""
    /\ fetched = << >> /\ n_requests = 0 /\ sleeps = << >> /\ download_called = FALSE
    /\ processed = << >> /\ caught = {}
    /\ last_call = "none" /\ idle = 0
    /\ species1 = 1 /\ pc1 = "for" /\ folder = EmptyDir /\ folder0 = {} /\ downloaded = 0 /\ page1 = 1
    /\ results1_left = 0 /\ photos_left = 0 /\ opens = EmptyOpens

Init ==
    /\ TARGET_IMAGES_PER_SPECIES \in 1..MaxTarget
    /\ PER_PAGE \in 1..MaxPerPage
    /\ InitLocals

(* ------------------------------ main ----------------------------------- *)
\* lines 155-158 and 84-89: the next species; _ensure_output_dir succeeds
\* (mkdir with exist_ok) on a directory holding d
ScrapeTaxon(d) ==
    /\ pc = "main" /\ sp <= Len(species_list)
    /\ processed' = Append(processed, sp)
    /\ taxon_dir' = d
    /\ total_downloaded' = 0
    /\ page' = 1
    /\ max_pages' = CeilDiv(TARGET_IMAGES_PER_SPECIES, PER_PAGE)
    /\ data' = UnsetData /\ results_left' = 0 /\ result' = NoResult
    /\ i' = 0 /\ url_template' = "" /\ image_url' = "" /\ save_path' = ""
    /\ attempt' = 0 /\ n_requests' = 0 /\ sleeps' = << >>
    /\ fetched' = << >> /\ download_called' = FALSE
    /\ ret' = FALSE /\ exc' = "none"
    /\ log' = "Starting scrape"
    /\ pc' = "while"
    /\ UNCHANGED <<main1, config, pace, sp, caught>>

\* lines 155-158, 84-86 and 59: mkdir raises OSError, which leaves scrape_taxon
EnsureOutputDirFails ==
    /\ pc = "main" /\ sp <= Len(species_list)
    /\ processed' = Append(processed, sp)
    /\ taxon_dir' = EmptyDir
    /\ total_downloaded' = 0 /\ page' = 1 /\ max_pages' = 0
    /\ data' = UnsetData /\ results_left' = 0 /\ result' = NoResult
    /\ i' = 0 /\ url_template' = "" /\ image_url' = "" /\ save_path' = ""
    /\ attempt' = 0 /\ n_requests' = 0 /\ sleeps' = << >>
    /\ fetched' = << >> /\ download_called' = FALSE
    /\ ret' = FALSE
    /\ exc' = "OSError"
    /\ log' = "Starting scrape"
    /\ pc' = "except"
    /\ UNCHANGED <<main1, config, pace, sp, caught>>

\* line 159: except Exception
MainCatchesNothing(e) == FALSE
MainCatches(e) == TRUE

\* scrape_taxon has returned or raised: its frame, and with it the histories
\* of the call, are gone
FrameDropped ==
    /\ taxon_dir' = EmptyDir
    /\ total_downloaded' = 0 /\ page' = 1 /\ max_pages' = 0
    /\ attempt' = 0 /\ n_requests' = 0 /\ sleeps' = << >>
    /\ data' = UnsetData /\ results_left' = 0 /\ result' = NoResult
    /\ i' = 0 /\ url_template' = "" /\ image_url' = "" /\ save_path' = ""
    /\ ret' = FALSE /\ fetched' = << >> /\ download_called' = FALSE
    /\ last_call' = "none" /\ idle' = 0

\* lines 159-161: main's handler
Except ==
    /\ pc = "except"
    /\ IF MainCatches(exc)
       THEN /\ caught' = caught \cup {exc}
            /\ log' = "Error processing"
            /\ sp' = sp + 1
            /\ pc' = "main"
       ELSE /\ pc' = "crashed"
            /\ log' = ""
            /\ UNCHANGED <<caught, sp>>
    /\ exc' = "none"
    /\ FrameDropped
    /\ UNCHANGED <<main1, config, processed>>

\* line 141 and the return to main's loop
Finished ==
    /\ pc = "finished"
    /\ log' = "Finished scraping"
    /\ sp' = sp + 1
    /\ pc' = "main"
    /\ FrameDropped
    /\ UNCHANGED <<main1, config, exc, main_hist>>

\* line 155: the list is exhausted, main returns
MainReturn ==
    /\ pc = "main" /\ sp > Len(species_list)
    /\ pc' = "done"
    /\ log' = ""
    /\ UNCHANGED <<main1, config, pace, sp, taxon_dir, species_locals, request_locals, data,
                   results_left, result, photo_locals, ret, exc, fetched,
                   download_called, main_hist>>

(* --------------------------- scrape_taxon ------------------------------ *)
\* line 91: the loop condition; a new iteration calls _make_request (line 104)
WhileCheck ==
    /\ pc = "while"
    /\ IF total_downloaded < TARGET_IMAGES_PER_SPECIES
       THEN /\ log' = "Processing page"
            /\ fetched' = Append(fetched, page)
            /\ attempt' = 0 /\ n_requests' = 0 /\ sleeps' = << >>
            /\ pc' = "request"
       ELSE /\ pc' = "finished"
            /\ log' = ""
            /\ UNCHANGED <<fetched, request_locals>>
    /\ UNCHANGED <<main1, config, pace, sp, taxon_dir, species_locals, data, results_left,
                   result, photo_locals, ret, exc, download_called, main_hist>>

\* line 105: not data or 'results' not in data or not data['results']
EndOfDataMissesNone(d) == d.kind \in {"empty_dict", "no_results_key", "empty_results"}
EndOfDataMissesEmpty(d) == d.kind \in {"None", "empty_dict", "no_results_key"}
EndOfData(d) == d.kind \in {"None", "empty_dict", "no_results_key", "empty_results"}

\* lines 104-109: _make_request has returned d
Returned(d) ==
    /\ data' = d
    /\ results_left' = d.n
    /\ IF EndOfData(d)
       THEN /\ log' = "No more results"
            /\ pc' = "finished"
       ELSE /\ log' = ""
            /\ pc' = "results"

\* time.sleep takes seconds
Tenths(seconds) == 10 * seconds

\* line 51: the delay slept after failed attempt number attempt (from 0)
BackoffConstant(a) == 1
Backoff(a) == 2 ^ a

\* line 50: another attempt follows attempt number a
RetryOneMore(a) == a < MAX_RETRIES
Retry(a) == a < MAX_RETRIES - 1

\* lines 41-47 and 104-109: the GET succeeds with a 2xx status and a JSON body
RequestOK(d) ==
    /\ pc = "request"
    /\ n_requests' = n_requests + 1
    /\ Returned(d)
    /\ last_call' = "page_ok" /\ idle' = 0
    /\ UNCHANGED <<main1, config, sp, taxon_dir, species_locals, attempt, sleeps, result,
                   photo_locals, ret, exc, fetched, download_called, main_hist>>

\* lines 48-54 and 104-107: the GET raises a RequestException (network error,
\* timeout, or raise_for_status on a non-2xx status)
RequestFail ==
    /\ pc = "request"
    /\ n_requests' = n_requests + 1
    /\ IF Retry(attempt)
       THEN /\ sleeps' = Append(sleeps, Backoff(attempt))
            /\ idle' = Tenths(Backoff(attempt))
            /\ attempt' = attempt + 1
            /\ log' = "Attempt failed"
            /\ UNCHANGED <<pc, data, results_left>>
       ELSE /\ Returned(NoneData)
            /\ idle' = 0
            /\ UNCHANGED <<sleeps, attempt>>
    /\ last_call' = "page_failed"
    /\ UNCHANGED <<main1, config, sp, taxon_dir, species_locals, result, photo_locals,
                   ret, exc, fetched, download_called, main_hist>>

\* line 110: result.get('photos') is truthy
HasPhotos(r) == "photos" \in DOMAIN r /\ r.photos > 0

\* lines 109-113: the next record of the page
NextResult(r) ==
    /\ pc = "results" /\ results_left > 0
    /\ results_left' = results_left - 1
    /\ IF HasPhotos(r)
       THEN result' = r /\ i' = 1 /\ pc' = "photos"
       ELSE result' = NoResult /\ i' = 0 /\ pc' = "results"
    /\ log' = ""
    /\ attempt' = 0 /\ n_requests' = 0 /\ sleeps' = << >>
    /\ UNCHANGED <<main1, config, pace, sp, taxon_dir, species_locals, data,
                   url_template, image_url, save_path, ret, exc, fetched,
                   download_called,
                   main_hist>>

\* line 134
NextPageSame(p) == p
NextPage(p) == p + 1

\* line 137
OverCeilingLate(p, m) == p > m * 2 + 1
OverCeiling(p, m) == p > m * 2

\* lines 134-139: the page's records are exhausted
EndPage ==
    /\ pc = "results" /\ results_left = 0
    /\ page' = NextPage(page)
    /\ IF OverCeiling(page', max_pages)
       THEN log' = "Reached maximum page limit" /\ pc' = "finished"
       ELSE log' = "" /\ pc' = "while"
    /\ attempt' = 0 /\ n_requests' = 0 /\ sleeps' = << >>
    /\ UNCHANGED <<main1, config, pace, sp, taxon_dir, total_downloaded, max_pages,
                   data, results_left, result, photo_locals,
                   ret, exc, fetched, download_called, main_hist>>

\* line 126: save_path.exists()
ExistsNever(dir, path) == FALSE
Exists(dir, path) == path \in DOMAIN dir

\* line 114
TargetReachedOff(total, target) == total > target
TargetReached(total, target) == total >= target

\* lines 113-130: the next photo of the current record, up to the call of
\* download_image
PhotoStep(photo) ==
    /\ pc = "photos"
    /\ IF i > result.photos \/ TargetReached(total_downloaded, TARGET_IMAGES_PER_SPECIES)
       THEN \* the inner loop ends, or breaks at line 115
            /\ pc' = "results"
            /\ result' = NoResult
            /\ i' = 0 /\ url_template' = "" /\ image_url' = "" /\ save_path' = ""
            /\ log' = ""
            /\ UNCHANGED <<exc, download_called>>
       ELSE IF "url" \notin DOMAIN photo
       THEN \* line 118 raises KeyError
            /\ exc' = "KeyError" /\ pc' = "except"
            /\ log' = ""
            /\ UNCHANGED <<result, photo_locals, download_called>>
       ELSE IF "id" \notin DOMAIN result
       THEN \* line 123 raises KeyError
            /\ url_template' = photo.url
            /\ image_url' = NormalizeUrl(photo.url)
            /\ exc' = "KeyError" /\ pc' = "except"
            /\ log' = ""
            /\ UNCHANGED <<result, i, save_path, download_called>>
       ELSE /\ url_template' = photo.url
            /\ image_url' = NormalizeUrl(photo.url)
            /\ save_path' = Filename(result.id, i, InferExt(image_url'))
            /\ IF Exists(taxon_dir, save_path')
               THEN /\ log' = "Skipping existing file"
                    /\ i' = i + 1
                    /\ UNCHANGED <<pc, download_called>>
               ELSE /\ pc' = "download"
                    /\ download_called' = TRUE
                    /\ log' = ""
                    /\ UNCHANGED i
            /\ UNCHANGED <<result, exc>>
    /\ UNCHANGED <<main1, config, pace, sp, taxon_dir, species_locals, request_locals, data,
                   results_left, ret, fetched, main_hist>>

(* --------------------------- download_image ---------------------------- *)
\* line 78: except Exception
DownloadCatchesRequestOnly(e) == e = "RequestException"
DownloadCatches(e) == TRUE

\* lines 72-74: what open('wb') and the writes leave at save_path
Written(dir, path, content) == (path :> content) @@ dir

\* lines 65-77: the GET, the status check and the writes all succeed
DownloadOK ==
    /\ pc = "download"
    /\ taxon_dir' = Written(taxon_dir, save_path, "complete")
    /\ ret' = TRUE
    /\ log' = "Downloaded"
    /\ pc' = "downloaded"
    /\ last_call' = "image_ok" /\ idle' = 0
    /\ UNCHANGED <<main1, config, sp, species_locals, request_locals, data, results_left,
                   result, photo_locals, exc, fetched, download_called, main_hist>>

\* lines 65-80: f.exc is raised, before or after save_path was opened
DownloadFail(f) ==
    /\ pc = "download"
    /\ taxon_dir' = IF f.opened THEN Written(taxon_dir, save_path, "partial")
                    ELSE taxon_dir
    /\ IF DownloadCatches(f.exc)
       THEN /\ ret' = FALSE
            /\ log' = "Failed to download"
            /\ pc' = "downloaded"
            /\ UNCHANGED exc
       ELSE /\ exc' = f.exc
            /\ pc' = "except"
            /\ log' = ""
            /\ UNCHANGED ret
    /\ last_call' = "image_failed" /\ idle' = 0
    /\ UNCHANGED <<main1, config, sp, species_locals, request_locals, data, results_left,
                   result, photo_locals, fetched, download_called, main_hist>>

\* line 131
CountAlways(r) == TRUE
Count(r) == r

\* line 132: time.sleep(self.REQUEST_DELAY), inside the if of line 130
NoDelay(r) == 0
Delay(r) == IF r THEN REQUEST_DELAY ELSE 0

\* lines 130-132: download_image has returned ret
AfterDownload ==
    /\ pc = "downloaded"
    /\ total_downloaded' = IF Count(ret) THEN total_downloaded + 1
                           ELSE total_downloaded
    /\ ret' = FALSE
    /\ i' = i + 1
    /\ url_template' = "" /\ image_url' = "" /\ save_path' = ""
    /\ log' = ""
    /\ pc' = "photos"
    /\ idle' = idle + Delay(ret)
    /\ UNCHANGED <<main1, config, last_call, sp, taxon_dir, page, max_pages, request_locals, data,
                   results_left, result, exc, fetched, download_called, main_hist>>

(* --------------------------- specification ----------------------------- *)
Next ==
    \/ \E d \in InitialDirs : ScrapeTaxon(d)
    \/ EnsureOutputDirFails
    \/ WhileCheck
    \/ \E d \in Responses(PER_PAGE) : RequestOK(d)
    \/ RequestFail
    \/ \E r \in Records : NextResult(r)
    \/ EndPage
    \/ \E photo \in Photos : PhotoStep(photo)
    \/ DownloadOK
    \/ \E f \in DownloadFailures : DownloadFail(f)
    \/ AfterDownload
    \/ Finished
    \/ Except
    \/ MainReturn

Spec == Init /\ [][Next]_vars

\* The interpreter always takes the program's next step, and every network
\* call returns or raises within TIMEOUT (lines 25, 41 and 65).
\* One record a page gives the most pages for a target.
InitFair ==
    /\ TARGET_IMAGES_PER_SPECIES \in 1..MaxTarget
    /\ PER_PAGE = 1
    /\ InitLocals

SpecFair == InitFair /\ [][Next]_vars /\ WF_vars(Next)

(* --------- scenario: target 5, page size 3, pages of 3 and 2 ------------ *)
\* pages 1 and 2 hold 3 and 2 records, any later page none
ScenarioPage(p) ==
    IF p = 1 THEN [kind |-> "results", n |-> 3]
    ELSE IF p = 2 THEN [kind |-> "results", n |-> 2]
    ELSE [kind |-> "empty_results", n |-> 0]

\* the records carry distinct observation ids, in page order, and one photo
ScenarioRecord == [id |-> (page - 1) * PER_PAGE + (data.n - results_left) + 1,
                   photos |-> 1]

InitScenario ==
    /\ TARGET_IMAGES_PER_SPECIES = 5
    /\ PER_PAGE = 3
    /\ InitLocals

NextScenario ==
    \/ ScrapeTaxon(EmptyDir)
    \/ WhileCheck
    \/ RequestOK(ScenarioPage(page))
    \/ NextResult(ScenarioRecord)
    \/ EndPage
    \/ \E u \in Urls : PhotoStep([url |-> u])
    \/ DownloadOK
    \/ AfterDownload
    \/ Finished
    \/ MainReturn

SpecScenario == InitScenario /\ [][NextScenario]_vars

(* ------------------------------ main.py -------------------------------- *)
\* line 3: the default of num_images, scaled down
num_images == MaxNumImages

\* lines 43-49
species_list1 == <<"Indian Rock Python", "Reticulated Python", "Green Tree Snake">>

\* line 34: the file's name inside the folder
ImagePath(species_name, n) == Replace(species_name, " ", "") \o ToString(n) \o ".jpg"

\* the paths of the files 1..num_images of each species of the list
image_paths ==
    [k \in DOMAIN species_list1 |->
        [n \in 1..num_images |-> ImagePath(species_list1[k], n)]]

\* a folder left by an earlier run: some of the species' image files
Folders(k) ==
    {[p \in {image_paths[k][n] : n \in ns} |-> "old"] : ns \in SUBSET (1..num_images)}

\* lines 14-19: the page request's outcomes: requests.get or response.json()
\* raises, a status other than 200, or a body with n results
PageResponses ==
    {[kind |-> "raises", n |-> 0], [kind |-> "status", n |-> 0]}
        \cup {[kind |-> "ok", n |-> n] : n \in 0..MaxPerPage}

\* download_inaturalist_images has returned: its frame is gone
Frame1Dropped ==
    /\ folder' = EmptyDir /\ folder0' = {} /\ downloaded' = 0 /\ page1' = 1
    /\ results1_left' = 0 /\ photos_left' = 0 /\ opens' = EmptyOpens

\* lines 51-52 and 4-10: the next species; makedirs (exist_ok) on a folder
\* holding d
DownloadImages ==
    /\ pc1 = "for" /\ species1 <= Len(species_list1)
    /\ \E d \in Folders(species1) : folder' = d /\ folder0' = DOMAIN d
    /\ downloaded' = 0 /\ page1' = 1
    /\ results1_left' = 0 /\ photos_left' = 0 /\ opens' = EmptyOpens
    /\ pc1' = "while"
    /\ UNCHANGED species1
    /\ UNCHANGED main2

\* line 51: the list is exhausted
End1 ==
    /\ pc1 = "for" /\ species1 > Len(species_list1)
    /\ pc1' = "end"
    /\ UNCHANGED <<species1, folder, folder0, downloaded, page1, results1_left, photos_left, opens>>
    /\ UNCHANGED main2

\* line 12
While1 ==
    /\ pc1 = "while"
    /\ IF downloaded < num_images
       THEN /\ pc1' = "get"
            /\ UNCHANGED <<species1, folder, folder0, downloaded, page1, results1_left,
                           photos_left, opens>>
       ELSE /\ pc1' = "for" /\ species1' = species1 + 1
            /\ Frame1Dropped
    /\ UNCHANGED main2

\* lines 14-22: the page request; an exception of lines 14 or 18 is caught
\* nowhere and ends the script
PageGet(r) ==
    /\ pc1 = "get"
    /\ IF r.kind = "raises"
       THEN /\ pc1' = "crashed"
            /\ UNCHANGED <<species1, folder, folder0, downloaded, page1, results1_left,
                           photos_left, opens>>
       ELSE IF r.kind = "status" \/ r.n = 0
       THEN \* break at line 17 or 22, and the return to line 51
            /\ pc1' = "for" /\ species1' = species1 + 1
            /\ Frame1Dropped
       ELSE /\ results1_left' = r.n
            /\ pc1' = "obs"
            /\ UNCHANGED <<species1, folder, folder0, downloaded, page1, photos_left, opens>>
    /\ UNCHANGED main2

\* lines 23-25: the next record, with k photos
NextObs(k) ==
    /\ pc1 = "obs" /\ results1_left > 0
    /\ results1_left' = results1_left - 1
    /\ photos_left' = k
    /\ pc1' = IF k > 0 THEN "photo" ELSE "obs"
    /\ UNCHANGED <<species1, folder, folder0, downloaded, page1, opens>>
    /\ UNCHANGED main2

\* line 40: page += 1
NextPage1(p) == IF p < MaxPage1 THEN p + 1 ELSE MaxPage1

\* line 40 and back to line 12: the page's records are exhausted
EndPage1 ==
    /\ pc1 = "obs" /\ results1_left = 0
    /\ page1' = NextPage1(page1)
    /\ pc1' = "while"
    /\ UNCHANGED <<species1, folder, folder0, downloaded, results1_left, photos_left, opens>>
    /\ UNCHANGED main2

\* lines 25-31: the next photo of the record, up to the image request
Photo1(has_url) ==
    /\ pc1 = "photo"
    /\ IF photos_left = 0 \/ downloaded >= num_images
       THEN photos_left' = 0 /\ pc1' = "obs"
       ELSE IF ~has_url
       THEN photos_left' = photos_left - 1 /\ pc1' = "photo"
       ELSE photos_left' = photos_left /\ pc1' = "image"
    /\ UNCHANGED <<species1, folder, folder0, downloaded, page1, results1_left, opens>>
    /\ UNCHANGED main2

\* line 34: open(..., 'wb') creates or truncates the file
Opened(o, path) == (path :> (IF path \in DOMAIN o /\ o[path] >= 1 THEN 2 ELSE 1)) @@ o

\* lines 33-37: the image request and the write succeed
ImageOK ==
    /\ pc1 = "image"
    /\ LET path == image_paths[species1][downloaded + 1]
       IN /\ folder' = Written(folder, path, "complete")
          /\ opens' = Opened(opens, path)
    /\ downloaded' = downloaded + 1
    /\ photos_left' = photos_left - 1
    /\ pc1' = "photo"
    /\ UNCHANGED <<species1, folder0, page1, results1_left>>
    /\ UNCHANGED main2

\* lines 33-39: the image request raises (nothing opened), or the write
\* raises after the file was opened; except Exception prints and goes on
ImageFail(was_opened) ==
    /\ pc1 = "image"
    /\ LET path == image_paths[species1][downloaded + 1]
       IN IF was_opened
          THEN /\ folder' = Written(folder, path, "partial")
               /\ opens' = Opened(opens, path)
          ELSE UNCHANGED <<folder, opens>>
    /\ photos_left' = photos_left - 1
    /\ pc1' = "photo"
    /\ UNCHANGED <<species1, folder0, downloaded, page1, results1_left>>
    /\ UNCHANGED main2

Next1 ==
    \/ DownloadImages
    \/ End1
    \/ While1
    \/ \E r \in PageResponses : PageGet(r)
    \/ \E k \in 0..MaxPhotos : NextObs(k)
    \/ EndPage1
    \/ \E has_url \in BOOLEAN : Photo1(has_url)
    \/ ImageOK
    \/ \E was_opened \in BOOLEAN : ImageFail(was_opened)

Init1 ==
    /\ TARGET_IMAGES_PER_SPECIES = 1
    /\ PER_PAGE = 1
    /\ InitLocals

\* The script is sequential and always takes its next step.
Spec1 == Init1 /\ [][Next1]_vars /\ WF_vars(Next1)

(* ------------------------------ claims --------------------------------- *)
\* the files this run of scrape_taxon has created in the species' directory
FilesWritten == {p \in DOMAIN taxon_dir : taxon_dir[p] # "old"}
FilesSaved == {p \in DOMAIN taxon_dir : taxon_dir[p] = "complete"}

\* C1: the number of files one run of scrape_taxon writes into the species'
\* directory never exceeds TARGET_IMAGES_PER_SPECIES, whatever the page
\* responses and download outcomes.  (Stated as claimed; the code leaves the
\* file of a download that fails after open('wb') and does not count it.)
C1_FilesNeverExceedTarget ==
    Cardinality(FilesWritten) <= TARGET_IMAGES_PER_SPECIES

\* C2: a photo whose destination path exists when it is reached is skipped:
\* no download is issued for the path, no file of the directory changes, and
\* total_downloaded is not incremented.
C2_ExistingPathSkipped ==
    [][ /\ (pc' = "download" => save_path' \notin DOMAIN taxon_dir)
        /\ (pc # "main" /\ pc' # "main"
              => \A p \in DOMAIN taxon_dir :
                    p \in DOMAIN taxon_dir' /\ taxon_dir'[p] = taxon_dir[p])
        /\ ((pc = "photos" /\ pc' \in {"photos", "download"}
               /\ save_path' # "" /\ save_path' \in DOMAIN taxon_dir)
              => /\ pc' = "photos"
                 /\ i' = i + 1
                 /\ taxon_dir' = taxon_dir
                 /\ total_downloaded' = total_downloaded
                 /\ download_called' = download_called) ]_vars

C2_Witness ==
    /\ pc = "photos" /\ log = "Skipping existing file"
    /\ save_path \in DOMAIN taxon_dir /\ taxon_dir[save_path] = "old"

\* C3: an empty results list for page 1 ends the species with
\* total_downloaded = 0, no download attempted and exactly one page fetch,
\* whose request is not repeated.
C3_EmptyFirstPage ==
    (data.kind = "empty_results" /\ page = 1)
        => /\ pc = "finished"
           /\ total_downloaded = 0
           /\ ~download_called
           /\ fetched = <<1>>
           /\ n_requests = attempt + 1

C3_Witness ==
    /\ pc = "finished" /\ data.kind = "empty_results" /\ page = 1
    /\ fetched = <<1>> /\ n_requests = 1

\* C4: when every request fails, _make_request makes exactly MAX_RETRIES
\* attempts, sleeps between consecutive attempts 1, 2, ... (each delay the
\* double of the one before, so strictly increasing), and returns None
\* without raising.
C4_RetriesThenNone ==
    /\ pc = "request"
          => attempt < MAX_RETRIES /\ n_requests = attempt /\ Len(sleeps) = attempt
    /\ data.kind = "None"
          => /\ n_requests = MAX_RETRIES
             /\ Len(sleeps) = MAX_RETRIES - 1
             /\ sleeps[1] = 1
             /\ \A k \in 2..Len(sleeps) :
                    sleeps[k] = 2 * sleeps[k - 1] /\ sleeps[k] > sleeps[k - 1]
             /\ exc = "none"
             /\ pc = "finished"

C4_Witness ==
    data.kind = "None" /\ n_requests = MAX_RETRIES /\ sleeps = <<1, 2>>

\* C5: for a photo whose URL template contains "square", the URL handed to
\* download_image has the marker replaced by "original", holds no marker and
\* is not the template.
C5_FullResolutionRequested ==
    (pc = "download" /\ Contains(url_template, SQUARE))
        => /\ image_url # url_template
           /\ ~Contains(image_url, SQUARE)
           /\ \E k \in 1..(Len(url_template) - Len(SQUARE) + 1) :
                /\ SubSeq(url_template, k, k + Len(SQUARE) - 1) = SQUARE
                /\ SubSeq(image_url, 1, k - 1) = SubSeq(url_template, 1, k - 1)
                /\ SubSeq(image_url, k, k + Len(ORIGINAL) - 1) = ORIGINAL
                /\ Len(image_url) = Len(url_template) + Len(ORIGINAL) - Len(SQUARE)

C5_Witness ==
    pc = "download" /\ url_template = "p/square.jpg" /\ image_url = "p/original.jpg"

\* C6: in the scenario (target 5, page size 3, empty directory, downloads
\* succeed, page 1 of 3 records and page 2 of 2 records, one photo each)
\* exactly 5 files are created, the second fetch asks for page 2 and there is
\* no third fetch.
C6_Scenario ==
    /\ Len(fetched) <= 2
    /\ \A k \in 1..Len(fetched) : fetched[k] = k
    /\ pc = "finished"
          => /\ Cardinality(FilesSaved) = 5
             /\ DOMAIN taxon_dir = FilesSaved
             /\ total_downloaded = 5
             /\ fetched = <<1, 2>>

C6_Witness ==
    pc = "finished" /\ Cardinality(DOMAIN taxon_dir) = 5 /\ fetched = <<1, 2>>

\* C7: a page fetch that fails after its retries ends the species' pagination:
\* no further fetch or download, the files and the counter are kept, and main
\* goes on to the next species of the list.
C7_FailedFetchEndsSpecies ==
    [][ /\ (pc = "request" /\ data'.kind = "None"
              => /\ pc' = "finished"
                 /\ UNCHANGED <<taxon_dir, total_downloaded, fetched,
                                download_called, sp, processed>>)
        /\ (pc = "finished"
              => pc' = "main" /\ sp' = sp + 1 /\ processed' = processed)
        /\ (pc = "main" /\ sp <= Len(species_list)
              => processed' = Append(processed, sp)) ]_vars

C7_Witness ==
    /\ pc = "finished" /\ data.kind = "None"
    /\ total_downloaded = 1 /\ Cardinality(FilesSaved) = 1
    /\ sp < Len(species_list)

\* C8: a failed image download is returned as False and not raised; the
\* counter is unchanged by it and the loop goes on to the next photo of the
\* same record and page.
C8_DownloadFailureContained ==
    [][ /\ (pc = "download"
              => /\ pc' = "downloaded"
                 /\ exc' = "none"
                 /\ ((save_path \notin DOMAIN taxon_dir'
                        \/ taxon_dir'[save_path] # "complete") => ret' = FALSE))
        /\ (pc = "downloaded" /\ ret = FALSE
              => /\ total_downloaded' = total_downloaded
                 /\ pc' = "photos"
                 /\ i' = i + 1
                 /\ UNCHANGED <<result, page, results_left, sp>>) ]_vars

C8_Witness ==
    /\ pc = "download" /\ i = 2 /\ total_downloaded = 0
    /\ Filename(result.id, 1, "jpg") \in DOMAIN taxon_dir
    /\ taxon_dir[Filename(result.id, 1, "jpg")] = "partial"

\* C9: an exception raised while one species is processed is caught by main:
\* the run never ends by the exception, and every species of the list is
\* processed, in list order.
C9_SpeciesErrorsCaught ==
    /\ pc # "crashed"
    /\ \A k \in 1..Len(processed) : processed[k] = k
    /\ pc = "main" => Len(processed) = sp - 1
    /\ pc = "done" => Len(processed) = Len(species_list)

C9_Witness ==
    pc = "done" /\ "KeyError" \in caught /\ Len(processed) = Len(species_list)

\* C10: once the creation of a species' directory has failed, no page fetch
\* and no image download is performed, for that species or a later one.
\* (Stated as claimed; main catches the OSError and goes on.)
C10_MkdirFailureAborts ==
    "OSError" \in caught => pc \notin {"request", "download"}

\* C11: within one scrape_taxon call the pages requested are 1, 2, 3, ... in
\* order, a page is fetched only while the target is not reached, and there
\* are at most 2 * ceil(TARGET_IMAGES_PER_SPECIES / PER_PAGE) page fetches.
C11_PagesInOrderBelowCeiling ==
    /\ \A k \in 1..Len(fetched) : fetched[k] = k
    /\ Len(fetched) <= 2 * CeilDiv(TARGET_IMAGES_PER_SPECIES, PER_PAGE)
    /\ pc = "request"
          => /\ total_downloaded < TARGET_IMAGES_PER_SPECIES
             /\ fetched[Len(fetched)] = page

C11_Witness ==
    /\ pc = "request" /\ fetched = <<1, 2, 3, 4>>
    /\ 4 = 2 * CeilDiv(TARGET_IMAGES_PER_SPECIES, PER_PAGE)

\* C13: total_downloaded is 0 when a species starts, changes only by +1 and
\* only on the step that reads a True result of download_image, stays within
\* 0..TARGET_IMAGES_PER_SPECIES, and at line 141 is the number of images this
\* run saved for the species.
C13_CounterDiscipline ==
    [][ /\ (pc = "main" => total_downloaded' = 0)
        /\ (pc # "main" /\ pc' # "main"
              => /\ total_downloaded' \in {total_downloaded, total_downloaded + 1}
                 /\ (total_downloaded' = total_downloaded + 1
                       => pc = "downloaded" /\ ret = TRUE
                          /\ save_path \in DOMAIN taxon_dir
                          /\ taxon_dir[save_path] = "complete"))
        /\ total_downloaded' \in 0..TARGET_IMAGES_PER_SPECIES
        /\ (pc' = "finished"
              => total_downloaded' = Cardinality({p \in DOMAIN taxon_dir' :
                                                    taxon_dir'[p] = "complete"})) ]_vars

C13_Witness ==
    /\ pc = "finished" /\ sp = 2 /\ total_downloaded = 2
    /\ Cardinality(FilesSaved) = 2 /\ Cardinality(DOMAIN taxon_dir) > 2

\* C15: the destination path is Filename(observation id, 1-based photo
\* position, inferred extension) in the species' directory, no other
\* (id, position) pair has that path, and a path that holds a file is not
\* written again.
C15_PathUniqueWrittenOnce ==
    [][ /\ (pc' = "download"
              => /\ save_path' = ToString(result'.id) \o "_" \o ToString(i') \o "."
                                   \o InferExt(image_url')
                 /\ \A o \in 1..(MaxObsId + 1), k \in 1..(MaxPhotos + 1) :
                        <<o, k>> # <<result'.id, i'>>
                            => \A e \in ALLOWED_EXT : Filename(o, k, e) # save_path')
        /\ (pc # "main" /\ pc' # "main" /\ taxon_dir' # taxon_dir
              => /\ pc = "download"
                 /\ save_path \notin DOMAIN taxon_dir
                 /\ \A p \in DOMAIN taxon_dir' \ {save_path} :
                        p \in DOMAIN taxon_dir /\ taxon_dir'[p] = taxon_dir[p]) ]_vars

C15_Witness ==
    /\ pc = "photos" /\ log = "Skipping existing file" /\ page = 2
    /\ taxon_dir[save_path] = "complete"

\* C18: once total_downloaded has reached the target, no image download and
\* no page fetch is issued for the species, while the remaining records of the
\* page are still iterated.
C18_NothingAfterTarget ==
    total_downloaded >= TARGET_IMAGES_PER_SPECIES
        => pc \in {"photos", "results", "while", "finished"}

C18_Witness ==
    /\ total_downloaded = TARGET_IMAGES_PER_SPECIES
    /\ pc = "photos" /\ i = 1 /\ data.n = 2 /\ results_left = 0

\* C19: when attempt k is the first to succeed, k requests were sent and the
\* k-1 sleeps 2^0, ..., 2^(k-2) lie between them; nothing is sent after the
\* success, and no sleep follows the last failed attempt.
C19_RequestsAndSleeps ==
    /\ pc = "request" => n_requests = attempt /\ n_requests < MAX_RETRIES
    /\ sleeps = [j \in 1..Len(sleeps) |-> 2 ^ (j - 1)]
    /\ (n_requests > 0 /\ pc # "request")
          => IF data.kind = "None"
             THEN n_requests = MAX_RETRIES /\ Len(sleeps) = MAX_RETRIES - 1
             ELSE n_requests = attempt + 1 /\ Len(sleeps) = n_requests - 1

C19_Witness ==
    pc = "results" /\ data.kind = "results" /\ n_requests = 3 /\ sleeps = <<1, 2>>

\* C14: a request issued after a successful image download comes after the
\* REQUEST_DELAY sleep, and an attempt that follows a failed attempt of the
\* same page fetch comes after that attempt's backoff sleep; one control
\* position means one request at a time.
C14_DelaysBeforeRequests ==
    /\ (pc \in {"request", "download"} /\ last_call = "image_ok")
          => idle >= REQUEST_DELAY
    /\ (pc = "request" /\ attempt > 0)
          => last_call = "page_failed" /\ idle = Tenths(2 ^ (attempt - 1)) /\ idle > 0
    /\ (pc \in {"photos", "results", "while"} /\ last_call = "image_ok")
          => idle = REQUEST_DELAY

C14_Witness ==
    /\ pc = "request" /\ last_call = "image_ok" /\ idle = REQUEST_DELAY
    /\ page = 2 /\ total_downloaded = 1

\* The steps scrape_taxon still has before it, at most: pages up to the
\* ceiling, per page the attempts of the fetch and the records, per record the
\* photos, per photo the test, the download and the reading of its result.
InLoop == pc \in {"while", "request", "results", "photos", "download", "downloaded"}
PhotoSpan == 3 * (MaxPhotos + 1) + 1
PageSpan == (PER_PAGE + 1) * PhotoSpan + MAX_RETRIES + 3
StepsLeft ==
    (2 * max_pages + 1 - page) * PageSpan
    + CASE pc = "while" -> (PER_PAGE + 1) * PhotoSpan + MAX_RETRIES + 2
        [] pc = "request" -> (PER_PAGE + 1) * PhotoSpan + MAX_RETRIES - attempt
        [] pc = "results" -> (results_left + 1) * PhotoSpan
        [] pc = "photos" -> (results_left + 1) * PhotoSpan + 3 * (result.photos + 1 - i) + 3
        [] pc = "download" -> (results_left + 1) * PhotoSpan + 3 * (result.photos + 1 - i) + 2
        [] pc = "downloaded" -> (results_left + 1) * PhotoSpan + 3 * (result.photos + 1 - i) + 1
        [] OTHER -> 0

C16_TargetsCreatedOnce ==
    \A p \in DOMAIN opens : opens[p] <= 1 /\ p \notin folder0

\* C17: in main.py the pagination loop of every species stops, so that the
\* script reaches the end of species_list or ends by an uncaught exception.
C17_Script1Ends == <>(pc1 \in {"end", "crashed"})

====
